---- MODULE Spec2Model ----
(***************************************************************************)
(* Lecture Voice-to-Notes Generator: the client-side controller of         *)
(* static/app.js as a state machine.  The state is the module-level `let`   *)
(* variables of app.js, the DOM properties its handlers read or write, the  *)
(* MediaRecorder objects and microphone streams it creates, and the         *)
(* position of every asynchronous handler that is suspended at an `await`   *)
(* or waiting in a timer.  The browser runs one handler segment at a time   *)
(* (one action here) and may run any ready segment next.                    *)
(***************************************************************************)
EXTENDS Integers, Sequences, FiniteSets, TLC

VARIABLES
  activeMode,        \* app.js:21  'upload' or 'record'
  uploadedFile,      \* app.js:19  {} for null, {file} otherwise
  recordedBlob,      \* app.js:20  {} for null, {blob} otherwise
  mediaRecorder,     \* app.js:15  0 for null, else the index of a recorder
  audioChunks,       \* app.js:16  sequence of chunks
  recordingTimer,    \* app.js:17  0 for null, else an interval id
  recordingSeconds,  \* app.js:18
  notesData,         \* app.js:22  the stored payload
  recorders,         \* the MediaRecorder objects created so far
  streams,           \* the microphone streams acquired so far (TRUE: live)
  intervals,         \* ids of the setInterval timers still running
  pendingStarts,     \* startRecording calls suspended at getUserMedia
  recordBtnHidden,   \* recordBtn.classList contains 'hidden'
  stopBtnHidden,     \* stopBtn.classList contains 'hidden'
  recStatus,         \* recStatus.textContent: "initial" (as loaded),
                     \* "recording" or "saved"
  generateDisabled,  \* generateBtn.disabled
  loading,           \* btnLoader shown and btnText hidden
  overlayHidden,     \* overlay.classList contains 'hidden'
  stepClass,         \* class of each step element: "none", "active", "done"
  displayed,         \* {} before any displayResults, else {payload shown}
  toast,             \* the notice on screen: toastMsg.textContent while
                     \* errorToast is shown, "" while it is hidden
  runs,              \* the generate click handlers, one record per slot
  results,           \* the results section: what displayResults rendered
  downloadLabel,     \* downloadBtn.textContent: "idle" or "busy" label
  downloadDisabled,  \* downloadBtn.disabled
  exports,           \* the download click handlers, one position per slot
  pdfRequests        \* the bodies of the requests sent to /generate-pdf

vars == << activeMode, uploadedFile, recordedBlob, mediaRecorder, audioChunks,
           recordingTimer, recordingSeconds, notesData, recorders, streams,
           intervals, pendingStarts, recordBtnHidden, stopBtnHidden, recStatus,
           generateDisabled, loading, overlayHidden, stepClass, displayed,
           toast, runs, results, downloadLabel, downloadDisabled, exports,
           pdfRequests >>

recVars == << mediaRecorder, audioChunks, recordingTimer, recordingSeconds,
              recorders, streams, intervals, pendingStarts, recordBtnHidden,
              stopBtnHidden, recStatus >>

runVars == << loading, overlayHidden, stepClass, displayed, notesData, runs,
              results >>

expVars == << downloadLabel, downloadDisabled, exports, pdfRequests >>

----------------------------------------------------------------------------
(* Bounds of the model *)

\* clicks on the generate button in one behaviour
MaxRuns == 2
\* successful getUserMedia calls (streams acquired) in one behaviour
MaxStarts == 2
\* recording sessions the user starts in a behaviour of Spec
MaxSessions == 1
\* startRecording calls waiting for the permission prompt at the same time
MaxPending == 2
\* chunks kept in audioChunks
MaxChunks == 1
\* cap of the elapsed-seconds counter
MaxSeconds == 1
\* clicks on the download button in one behaviour
MaxExports == 1
\* length of the texts of the payloads rendered in RenderSpec
MaxText == 2
\* quiz items and flashcards of the payloads rendered in RenderSpec
MaxItems == 2

----------------------------------------------------------------------------
(* Values *)

Undefined == "<undefined>"

\* A text is a sequence of one-character strings.  A payload object carries
\* in `has` the names of the result fields present in it; a field that is
\* absent reads as undefined, which is falsy like the empty string, and is
\* kept here as the empty sequence.
QuizItem(has, question, answer) ==
  [has |-> has,
   question |-> IF "question" \in has THEN question ELSE <<>>,
   answer |-> IF "answer" \in has THEN answer ELSE <<>>]

Card(has, front, back) ==
  [has |-> has,
   front |-> IF "front" \in has THEN front ELSE <<>>,
   back |-> IF "back" \in has THEN back ELSE <<>>]

\* the result fields of a /transcribe payload
Result(has, transcript, summary, bullets, quiz, flashcards) ==
  [has |-> has,
   transcript |-> IF "transcript" \in has THEN transcript ELSE <<>>,
   summary |-> IF "summary" \in has THEN summary ELSE <<>>,
   bullets |-> IF "bullets" \in has THEN bullets ELSE <<>>,
   quiz |-> IF "quiz" \in has THEN quiz ELSE <<>>,
   flashcards |-> IF "flashcards" \in has THEN flashcards ELSE <<>>]

ResultFields == {"transcript", "summary", "bullets", "quiz", "flashcards"}

\* a payload without result fields
NoFields == Result({}, <<>>, <<>>, <<>>, <<>>, <<>>)

\* a JS object with the fields of a /transcribe payload: the success flag,
\* the error message and the result fields; a missing flag or message reads
\* as undefined
Payload(success, error, notes) ==
  [success |-> success, error |-> error, has |-> notes.has,
   transcript |-> notes.transcript, summary |-> notes.summary,
   bullets |-> notes.bullets, quiz |-> notes.quiz,
   flashcards |-> notes.flashcards]

\* let notesData = {}
EmptyObject == Payload(Undefined, Undefined, NoFields)

\* the results the server answers with in the generation pipeline: one with
\* transcript, summary and bullets and empty quiz and flashcard lists, and
\* one with the summary alone (RenderSpec has the payloads with items)
Notes ==
  { Result(ResultFields, <<"a">>, <<"a", "&">>, << <<"a">> >>, <<>>, <<>>),
    Result({"summary"}, <<>>, <<"a">>, <<>>, <<>>, <<>>) }

ServerErrors == {"model cold start"}

\* the JSON bodies the server answers with: a result with success true, or
\* a failure whose success flag is false or missing and whose error field
\* is a message, the empty string or missing
Payloads ==
  { Payload("true", Undefined, n) : n \in Notes }
    \cup { Payload(s, e, NoFields) : s \in {"false", Undefined},
                                      e \in ServerErrors \cup {Undefined} }
    \cup { Payload("false", "", NoFields) }

Bodies == {[parses |-> TRUE, json |-> p] : p \in Payloads}
            \cup {[parses |-> FALSE, json |-> EmptyObject]}

Statuses == {200, 500}

\* a Response: its status and its body, which response.json() parses later
Response(status, body) == [status |-> status, body |-> body]

\* no response held
NoResponse == Response(0, [parses |-> FALSE, json |-> EmptyObject])

\* response.ok
Ok(status) == status >= 200 /\ status <= 299

\* `HTTP ${response.status}`
HttpMessage(status) ==
  CASE status = 404 -> "HTTP 404"
    [] status = 500 -> "HTTP 500"
    [] OTHER -> "HTTP 200"

MsgUnsupported == "Please upload an audio file (MP3, WAV, WebM, OGG, M4A)"
MsgMicrophone == "Microphone access denied. Please allow microphone permission in your browser."
MsgUnknown == "Unknown error"
\* message of the TypeError of reading .ok of undefined
MsgTypeError == "Cannot read properties of undefined (reading 'ok')"
\* message of the SyntaxError of response.json() on a body that is not JSON
MsgSyntaxError == "Unexpected token < in JSON at position 0"
\* message of the TypeError of a rejected fetch
MsgNetwork == "Failed to fetch"
\* String(err.message) of the ProgressEvent FileReader rejects with
MsgNoMessage == "undefined"

\* JS truthiness of a string-or-undefined field
Truthy(v) == v /= Undefined /\ v /= "" /\ v /= "false"

----------------------------------------------------------------------------
(* Upload validation, app.js:82-94 *)

allowed == {"audio/mpeg", "audio/wav", "audio/webm", "audio/ogg",
            "audio/mp4", "video/mp4", "audio/x-m4a"}

\* the alternatives of /\.(mp3|wav|webm|ogg|m4a|mp4)$/i, as character sequences
Extensions == { <<"m","p","3">>, <<"w","a","v">>, <<"w","e","b","m">>,
                <<"o","g","g">>, <<"m","4","a">>, <<"m","p","4">> }

\* the /i flag: letters compare by their lower-case form
ToLower(c) ==
  CASE c = "A" -> "a" [] c = "B" -> "b" [] c = "G" -> "g" [] c = "M" -> "m"
    [] c = "O" -> "o" [] c = "P" -> "p" [] c = "T" -> "t" [] c = "V" -> "v"
    [] c = "W" -> "w" [] c = "X" -> "x" [] c = "E" -> "e"
    [] OTHER -> c

LowerSeq(s) == [i \in 1..Len(s) |-> ToLower(s[i])]

\* the $ anchor: s ends with suffix
EndsWith(s, suffix) ==
  /\ Len(s) >= Len(suffix)
  /\ SubSeq(s, Len(s) - Len(suffix) + 1, Len(s)) = suffix

\* file.name.match(/\.(mp3|wav|webm|ogg|m4a|mp4)$/i)
MatchesExtension(name) ==
  \E ext \in Extensions : EndsWith(LowerSeq(name), <<".">> \o ext)

\* handleFileSelect's test with the i flag of the pattern left out
Accepts_CaseSensitive(file) ==
  \/ file.type \in allowed
  \/ \E ext \in Extensions : EndsWith(file.name, <<".">> \o ext)

\* the negation of the condition of the early return of handleFileSelect
Accepts(file) == file.type \in allowed \/ MatchesExtension(file.name)

File(type, name) == [type |-> type, name |-> name]

\* the files the user picks in RecordSpec
SampleFiles ==
  { File("", <<"b",".","W","a","V">>),
    File("text/plain", <<"c",".","t","x","t">>) }

----------------------------------------------------------------------------
(* Results rendering, app.js:241-310 and 409-417 *)

Amp == <<"&", "a", "m", "p", ";">>
Lt == <<"&", "l", "t", ";">>
Gt == <<"&", "g", "t", ";">>
Quot == <<"&", "q", "u", "o", "t", ";">>
Apos == <<"&", "#", "0", "3", "9", ";">>

\* String.prototype.replace with a global one-character pattern
RECURSIVE Replace(_, _, _)
Replace(s, c, entity) ==
  IF s = <<>> THEN <<>>
  ELSE (IF Head(s) = c THEN entity ELSE <<Head(s)>>)
         \o Replace(Tail(s), c, entity)

\* escapeHtml without the replacement of the single quote
escapeHtml_NoApos(text) ==
  IF text = <<>> THEN <<>>
  ELSE Replace(Replace(Replace(Replace(text, "&", Amp), "<", Lt), ">", Gt),
               "\"", Quot)

\* escapeHtml, app.js:409-417
escapeHtml(text) ==
  IF text = <<>> THEN <<>>
  ELSE Replace(Replace(Replace(Replace(Replace(text, "&", Amp), "<", Lt),
                               ">", Gt), "\"", Quot), "'", Apos)

TranscriptPlaceholder == <<"Transcript not available.">>
SummaryPlaceholder == <<"Summary not available.">>
RevealLabel == "Reveal Answer"
HideLabel == "Hide Answer"

\* value || fallback without the fallback
OrElse_NoFallback(value, fallback) == value

\* value || fallback, app.js:247, 251, 256, 265, 280
OrElse(value, fallback) == IF value = <<>> THEN fallback ELSE value

\* the results section before any displayResults
NoResults ==
  [hidden |-> TRUE, transcript |-> <<>>, summary |-> <<>>, bullets |-> <<>>,
   quiz |-> <<>>, flashcards |-> <<>>]

\* displayResults rendering the quiz items with their answers shown
displayResults_AnswersShown(data) ==
  [hidden |-> FALSE,
   transcript |-> OrElse(data.transcript, TranscriptPlaceholder),
   summary |-> OrElse(data.summary, SummaryPlaceholder),
   bullets |-> OrElse(data.bullets, <<>>),
   quiz |-> [i \in 1..Len(OrElse(data.quiz, <<>>)) |->
               [number |-> i,
                question |-> escapeHtml(data.quiz[i].question),
                label |-> HideLabel,
                answer |-> escapeHtml(data.quiz[i].answer),
                display |-> "block"]],
   flashcards |-> [j \in 1..Len(OrElse(data.flashcards, <<>>)) |->
               [front |-> escapeHtml(data.flashcards[j].front),
                back |-> escapeHtml(data.flashcards[j].back),
                flipped |-> FALSE]]]

\* displayResults, app.js:241-292: the results section it leaves.  The
\* transcript, the summary and the bullets are set as textContent; a quiz
\* item and a flashcard are set as innerHTML, with the inline display of the
\* answer unset ("") and the card without the class 'flipped'
displayResults(data) ==
  [hidden |-> FALSE,
   transcript |-> OrElse(data.transcript, TranscriptPlaceholder),
   summary |-> OrElse(data.summary, SummaryPlaceholder),
   bullets |-> OrElse(data.bullets, <<>>),
   quiz |-> [i \in 1..Len(OrElse(data.quiz, <<>>)) |->
               [number |-> i,
                question |-> escapeHtml(data.quiz[i].question),
                label |-> RevealLabel,
                answer |-> escapeHtml(data.quiz[i].answer),
                display |-> ""]],
   flashcards |-> [j \in 1..Len(OrElse(data.flashcards, <<>>)) |->
               [front |-> escapeHtml(data.flashcards[j].front),
                back |-> escapeHtml(data.flashcards[j].back),
                flipped |-> FALSE]]]

----------------------------------------------------------------------------
(* Initial state: app.js:15-22, and the page as loaded (no selection, the
   generate button disabled, the stop button, overlay, results and toast
   hidden) *)

NoSteps == [s \in {"transcribe", "summarize", "quiz", "flash"} |-> "none"]

\* a generate handler: where it is suspended, the arm of the if/else-if of
\* app.js:187-208 it took ("none": neither), the response and the parsed
\* payload it holds, and the requests it has sent
IdleRun == [pc |-> "idle", branch |-> "none", response |-> NoResponse,
            data |-> EmptyObject, reqs |-> <<>>]

Init ==
  /\ activeMode = "upload"
  /\ uploadedFile = {}
  /\ recordedBlob = {}
  /\ mediaRecorder = 0
  /\ audioChunks = <<>>
  /\ recordingTimer = 0
  /\ recordingSeconds = 0
  /\ notesData = EmptyObject
  /\ recorders = <<>>
  /\ streams = <<>>
  /\ intervals = {}
  /\ pendingStarts = 0
  /\ recordBtnHidden = FALSE
  /\ stopBtnHidden = TRUE
  /\ recStatus = "initial"
  /\ generateDisabled = TRUE
  /\ loading = FALSE
  /\ overlayHidden = TRUE
  /\ stepClass = NoSteps
  /\ displayed = {}
  /\ toast = ""
  /\ runs = [r \in 1..MaxRuns |-> IdleRun]
  /\ results = NoResults
  /\ downloadLabel = "idle"
  /\ downloadDisabled = FALSE
  /\ exports = [e \in 1..MaxExports |-> "idle"]
  /\ pdfRequests = <<>>

----------------------------------------------------------------------------
(* Helpers of app.js *)

\* updateGenerateBtn, app.js:173-177: the value it gives generateBtn.disabled
updateGenerateBtn(mode, file, blob) ==
  LET hasUpload == mode = "upload" /\ file /= {}
      hasRecord == mode = "record" /\ blob /= {}
  IN  ~(hasUpload \/ hasRecord)

\* showError, app.js:376-381
showError(message) == toast' = message

\* setLoading, app.js:369-373
setLoading(isLoading) ==
  /\ generateDisabled' = isLoading
  /\ loading' = isLoading

\* hideProcessingOverlay leaving the overlay as it is
hideProcessingOverlay_Noop == overlayHidden' = overlayHidden

\* hideProcessingOverlay, app.js:354-356
hideProcessingOverlay == overlayHidden' = TRUE

steps == <<"transcribe", "summarize", "quiz", "flash">>

\* steps.indexOf, counted from 1
indexOf(step) == CHOOSE i \in 1..Len(steps) : steps[i] = step

\* setStep, app.js:358-366: the class every step element ends with
setStep(currentStep) ==
  [s \in {"transcribe", "summarize", "quiz", "flash"} |->
     IF indexOf(s) < indexOf(currentStep) THEN "done"
     ELSE IF indexOf(s) = indexOf(currentStep) THEN "active"
     ELSE "none"]

----------------------------------------------------------------------------
(* Tabs and upload, app.js:49-101 *)

\* click on a tab button, app.js:50-57
TabClick(tab) ==
  /\ activeMode' = tab
  /\ generateDisabled' = updateGenerateBtn(tab, uploadedFile, recordedBlob)
  /\ UNCHANGED << uploadedFile, recordedBlob, toast >>
  /\ UNCHANGED recVars
  /\ UNCHANGED runVars
  /\ UNCHANGED expVars

\* handleFileSelect, app.js:82-94 (from the drop and change listeners)
handleFileSelect(file) ==
  /\ activeMode = "upload"
  /\ IF ~Accepts(file)
       THEN /\ showError(MsgUnsupported)
            /\ UNCHANGED << uploadedFile, generateDisabled >>
       ELSE /\ uploadedFile' = {file}
            /\ generateDisabled' = updateGenerateBtn(activeMode, {file}, recordedBlob)
            /\ UNCHANGED << toast >>
  /\ UNCHANGED << activeMode, recordedBlob >>
  /\ UNCHANGED recVars
  /\ UNCHANGED runVars
  /\ UNCHANGED expVars

\* click on the remove button of the file preview, app.js:96-101
RemoveFileClick ==
  /\ activeMode = "upload"
  /\ uploadedFile /= {}
  /\ uploadedFile' = {}
  /\ generateDisabled' = updateGenerateBtn(activeMode, {}, recordedBlob)
  /\ UNCHANGED << activeMode, recordedBlob, toast >>
  /\ UNCHANGED recVars
  /\ UNCHANGED runVars
  /\ UNCHANGED expVars

\* click on the close button of the toast, app.js:383
ToastClose ==
  /\ toast /= ""
  /\ toast' = ""
  /\ UNCHANGED << activeMode, uploadedFile, recordedBlob, generateDisabled >>
  /\ UNCHANGED recVars
  /\ UNCHANGED runVars
  /\ UNCHANGED expVars

\* the 6 s timeout of showError, app.js:380
ToastTimeout ==
  /\ toast /= ""
  /\ toast' = ""
  /\ UNCHANGED << activeMode, uploadedFile, recordedBlob, generateDisabled >>
  /\ UNCHANGED recVars
  /\ UNCHANGED runVars
  /\ UNCHANGED expVars

----------------------------------------------------------------------------
(* Microphone recording, app.js:104-170.  The controls of a tab pane can be
   clicked only while the pane is the active one (app.js:51-55) and the
   button does not carry the class 'hidden' (app.js:140-141, 166-167). *)

Recorder(stream) == [state |-> "recording", stopQueued |-> FALSE, stream |-> stream]

\* click on recordBtn: startRecording up to its await, app.js:107-110
StartRecordingClick ==
  /\ activeMode = "record"
  /\ ~recordBtnHidden
  /\ pendingStarts < MaxPending
  /\ pendingStarts' = pendingStarts + 1
  /\ UNCHANGED << activeMode, uploadedFile, recordedBlob, generateDisabled,
                  toast, mediaRecorder, audioChunks,
                  recordingTimer, recordingSeconds, recorders, streams,
                  intervals, recordBtnHidden, stopBtnHidden,
                  recStatus >>
  /\ UNCHANGED runVars
  /\ UNCHANGED expVars

\* getUserMedia rejects: the catch block, app.js:153-156
GetUserMediaRejected ==
  /\ pendingStarts > 0
  /\ pendingStarts' = pendingStarts - 1
  /\ showError(MsgMicrophone)
  /\ UNCHANGED << activeMode, uploadedFile, recordedBlob, generateDisabled,
                  mediaRecorder, audioChunks, recordingTimer, recordingSeconds,
                  recorders, streams, intervals, recordBtnHidden,
                  stopBtnHidden, recStatus >>
  /\ UNCHANGED runVars
  /\ UNCHANGED expVars

\* getUserMedia resolves and startRecording runs to its end, app.js:110-151
StartRecordingResumed ==
  /\ pendingStarts > 0
  /\ Len(streams) < MaxStarts
  /\ pendingStarts' = pendingStarts - 1
  /\ streams' = Append(streams, TRUE)
  /\ audioChunks' = <<>>
  /\ recordedBlob' = {}
  /\ recordingSeconds' = 0
  /\ recorders' = Append(recorders, Recorder(Len(streams) + 1))
  /\ mediaRecorder' = Len(recorders) + 1
  /\ recordBtnHidden' = TRUE
  /\ stopBtnHidden' = FALSE
  /\ recStatus' = "recording"
  /\ intervals' = intervals \cup {Len(recorders) + 1}
  /\ recordingTimer' = Len(recorders) + 1
  /\ UNCHANGED << activeMode, uploadedFile, generateDisabled, toast >>
  /\ UNCHANGED runVars
  /\ UNCHANGED expVars

\* getUserMedia resolves and the MediaRecorder constructor (or start) throws,
\* as where 'audio/webm' is not supported: app.js:110-121, 153-156
StartRecordingThrows ==
  /\ pendingStarts > 0
  /\ Len(streams) < MaxStarts
  /\ pendingStarts' = pendingStarts - 1
  /\ streams' = Append(streams, TRUE)
  /\ audioChunks' = <<>>
  /\ recordedBlob' = {}
  /\ recordingSeconds' = 0
  /\ showError(MsgMicrophone)
  /\ UNCHANGED << activeMode, uploadedFile, generateDisabled, mediaRecorder,
                  recordingTimer, recorders, intervals, recordBtnHidden,
                  stopBtnHidden, recStatus >>
  /\ UNCHANGED runVars
  /\ UNCHANGED expVars

\* a recorder delivers a chunk: ondataavailable, app.js:123-125
DataAvailable(rec, size) ==
  /\ rec \in 1..Len(recorders)
  /\ recorders[rec].state = "recording" \/ recorders[rec].stopQueued
  /\ Len(audioChunks) < MaxChunks
  /\ audioChunks' = IF size > 0 THEN Append(audioChunks, rec) ELSE audioChunks
  /\ UNCHANGED << activeMode, uploadedFile, recordedBlob, generateDisabled,
                  toast, mediaRecorder, recordingTimer,
                  recordingSeconds, recorders, streams, intervals,
                  pendingStarts, recordBtnHidden, stopBtnHidden,
                  recStatus >>
  /\ UNCHANGED runVars
  /\ UNCHANGED expVars

\* an interval created by startRecording fires, app.js:146-151
TimerTick(id) ==
  /\ id \in intervals
  /\ recordingSeconds < MaxSeconds
  /\ recordingSeconds' = recordingSeconds + 1
  /\ UNCHANGED << activeMode, uploadedFile, recordedBlob, generateDisabled,
                  toast, mediaRecorder, audioChunks,
                  recordingTimer, recorders, streams, intervals,
                  pendingStarts, recordBtnHidden, stopBtnHidden,
                  recStatus >>
  /\ UNCHANGED runVars
  /\ UNCHANGED expVars

\* stopRecording also resetting the session as startRecording does
stopRecording_ResetsSession ==
  /\ recorders' =
       IF mediaRecorder /= 0 /\ recorders[mediaRecorder].state /= "inactive"
       THEN [recorders EXCEPT ![mediaRecorder] =
               [@ EXCEPT !.state = "inactive", !.stopQueued = TRUE]]
       ELSE recorders
  /\ intervals' = intervals \ {recordingTimer}
  /\ recordBtnHidden' = FALSE
  /\ stopBtnHidden' = TRUE
  /\ recStatus' = "saved"
  /\ recordedBlob' = {}
  /\ recordingSeconds' = 0
  /\ UNCHANGED << activeMode, uploadedFile, generateDisabled,
                  toast, mediaRecorder, audioChunks,
                  recordingTimer, streams, pendingStarts >>
  /\ UNCHANGED runVars
  /\ UNCHANGED expVars

\* click on stopBtn: stopRecording, app.js:159-170
stopRecording ==
  /\ recorders' =
       IF mediaRecorder /= 0 /\ recorders[mediaRecorder].state /= "inactive"
       THEN [recorders EXCEPT ![mediaRecorder] =
               [@ EXCEPT !.state = "inactive", !.stopQueued = TRUE]]
       ELSE recorders
  /\ intervals' = intervals \ {recordingTimer}
  /\ recordBtnHidden' = FALSE
  /\ stopBtnHidden' = TRUE
  /\ recStatus' = "saved"
  /\ UNCHANGED << activeMode, uploadedFile, recordedBlob, generateDisabled,
                  toast, mediaRecorder, audioChunks,
                  recordingTimer, recordingSeconds, streams, pendingStarts >>
  /\ UNCHANGED runVars
  /\ UNCHANGED expVars

StopRecordingClick ==
  /\ activeMode = "record"
  /\ ~stopBtnHidden
  /\ stopRecording

\* the stop event of a stopped recorder: onstop, app.js:127-135
OnStop(rec) ==
  /\ rec \in 1..Len(recorders)
  /\ recorders[rec].stopQueued
  /\ recorders' = [recorders EXCEPT ![rec] = [@ EXCEPT !.stopQueued = FALSE]]
  /\ recordedBlob' = {[chunks |-> audioChunks]}
  /\ streams' = [streams EXCEPT ![recorders[rec].stream] = FALSE]
  /\ generateDisabled' =
       updateGenerateBtn(activeMode, uploadedFile, {[chunks |-> audioChunks]})
  /\ UNCHANGED << activeMode, uploadedFile, toast,
                  mediaRecorder, audioChunks, recordingTimer, recordingSeconds,
                  intervals, pendingStarts, recordBtnHidden, stopBtnHidden,
                  recStatus >>
  /\ UNCHANGED runVars
  /\ UNCHANGED expVars

----------------------------------------------------------------------------
(* Generate: the click handler of generateBtn, app.js:180-238.  Each click
   starts a handler, which takes the next record of `runs`; pc is the await
   or timer it is suspended at, "done" or "failed" once it has ended. *)

InFlight(r) ==
  runs[r].pc \in {"encode", "fetch", "errjson", "okjson", "timer1", "timer2"}

\* the record the next click's handler takes: the first unused one
FreeSlot == CHOOSE r \in 1..MaxRuns :
              /\ runs[r].pc = "idle"
              /\ \A q \in 1..MaxRuns : runs[q].pc = "idle" => r <= q

MultipartRequest == [url |-> "/transcribe", body |-> "multipart", field |-> "audio"]
JsonRequest == [url |-> "/transcribe", body |-> "json", field |-> "audio_blob"]

recUnchanged ==
  /\ UNCHANGED << activeMode, uploadedFile, recordedBlob, mediaRecorder,
                  audioChunks, recordingTimer, recordingSeconds, recorders,
                  streams, intervals, pendingStarts, recordBtnHidden,
                  stopBtnHidden, recStatus >>
  /\ UNCHANGED expVars

\* the catch block without its setLoading(false)
Catch_NoRevert(r, message) ==
  /\ hideProcessingOverlay
  /\ UNCHANGED << generateDisabled, loading >>
  /\ showError(message)
  /\ runs' = [runs EXCEPT ![r] =
                [IdleRun EXCEPT !.pc = "failed", !.branch = runs[r].branch,
                                !.reqs = runs[r].reqs]]

\* the catch block, app.js:232-237
Catch(r, message) ==
  /\ hideProcessingOverlay
  /\ setLoading(FALSE)
  /\ showError(message)
  /\ runs' = [runs EXCEPT ![r] =
                [IdleRun EXCEPT !.pc = "failed", !.branch = runs[r].branch,
                                !.reqs = runs[r].reqs]]

\* err.error || `HTTP ${response.status}`, app.js:212
HttpErrorMessage(err, status) ==
  IF Truthy(err.error) THEN err.error ELSE HttpMessage(status)

\* the message of app.js:218 without data.error
BackendErrorMessage_Generic(data) == MsgUnknown

\* data.error || 'Unknown error', app.js:218
BackendErrorMessage(data) ==
  IF Truthy(data.error) THEN data.error ELSE MsgUnknown

\* click on generateBtn: the handler up to its first await, app.js:180-208;
\* with neither selection present `response` stays undefined and reading
\* response.ok (app.js:210) throws into the catch block
GenerateClick ==
  /\ ~generateDisabled
  /\ \E r \in 1..MaxRuns : runs[r].pc = "idle"
  /\ LET r == FreeSlot IN
     IF activeMode = "upload" /\ uploadedFile /= {}
     THEN /\ setLoading(TRUE)
          /\ overlayHidden' = FALSE
          /\ stepClass' = setStep("transcribe")
          /\ runs' = [runs EXCEPT ![r] =
                        [IdleRun EXCEPT !.pc = "fetch", !.branch = "upload",
                                        !.reqs = <<MultipartRequest>>]]
          /\ UNCHANGED << toast >>
     ELSE IF activeMode = "record" /\ recordedBlob /= {}
     THEN /\ setLoading(TRUE)
          /\ overlayHidden' = FALSE
          /\ stepClass' = NoSteps
          /\ runs' = [runs EXCEPT ![r] =
                        [IdleRun EXCEPT !.pc = "encode", !.branch = "record"]]
          /\ UNCHANGED << toast >>
     ELSE /\ stepClass' = NoSteps
          /\ Catch(r, MsgTypeError)
  /\ UNCHANGED << displayed, results, notesData >>
  /\ recUnchanged

\* blobToBase64 resolves: app.js:200-207
EncodeDone(r) ==
  /\ runs[r].pc = "encode"
  /\ stepClass' = setStep("transcribe")
  /\ runs' = [runs EXCEPT ![r] =
                [@ EXCEPT !.pc = "fetch", !.reqs = Append(@, JsonRequest)]]
  /\ UNCHANGED << generateDisabled, loading, overlayHidden, displayed,
                  results, notesData, toast >>
  /\ recUnchanged

\* blobToBase64 rejects (reader.onerror, app.js:396) into the catch block
EncodeFails(r) ==
  /\ runs[r].pc = "encode"
  /\ Catch(r, MsgNoMessage)
  /\ UNCHANGED << stepClass, displayed, results, notesData >>
  /\ recUnchanged

\* fetch rejects (no connection) into the catch block
FetchRejects(r) ==
  /\ runs[r].pc = "fetch"
  /\ Catch(r, MsgNetwork)
  /\ UNCHANGED << stepClass, displayed, results, notesData >>
  /\ recUnchanged

\* fetch resolves with a response: app.js:210-216 up to the next await
FetchResolves(r, status, body) ==
  /\ runs[r].pc = "fetch"
  /\ IF ~Ok(status)
       THEN /\ runs' = [runs EXCEPT ![r] =
                          [@ EXCEPT !.pc = "errjson",
                                    !.response = Response(status, body)]]
            /\ UNCHANGED stepClass
       ELSE /\ runs' = [runs EXCEPT ![r] =
                          [@ EXCEPT !.pc = "okjson",
                                    !.response = Response(status, body)]]
            /\ stepClass' = setStep("summarize")
  /\ UNCHANGED << generateDisabled, loading, overlayHidden, displayed,
                  results, notesData, toast >>
  /\ recUnchanged

\* response.json() of a non-2xx response settles: app.js:211-212, 232-237
ErrorBodyRead(r) ==
  /\ runs[r].pc = "errjson"
  /\ IF runs[r].response.body.parses
       THEN Catch(r, HttpErrorMessage(runs[r].response.body.json,
                                      runs[r].response.status))
       ELSE Catch(r, MsgSyntaxError)
  /\ UNCHANGED << stepClass, displayed, results, notesData >>
  /\ recUnchanged

\* BodyRead storing the payload before it looks at the success flag
BodyRead_StoreFirst(r) ==
  /\ runs[r].pc = "okjson"
  /\ IF ~runs[r].response.body.parses
       THEN /\ Catch(r, MsgSyntaxError)
            /\ UNCHANGED << stepClass, notesData >>
       ELSE IF ~Truthy(runs[r].response.body.json.success)
       THEN /\ Catch(r, BackendErrorMessage(runs[r].response.body.json))
            /\ notesData' = runs[r].response.body.json
            /\ UNCHANGED << stepClass >>
       ELSE /\ stepClass' = setStep("quiz")
            /\ notesData' = runs[r].response.body.json
            /\ runs' = [runs EXCEPT ![r] =
                          [@ EXCEPT !.pc = "timer1",
                                    !.response = NoResponse,
                                    !.data = runs[r].response.body.json]]
            /\ UNCHANGED << generateDisabled, loading, overlayHidden,
                            toast >>
  /\ UNCHANGED << displayed, results >>
  /\ recUnchanged

\* response.json() of a 2xx response settles: app.js:216-230, 232-237
BodyRead(r) ==
  /\ runs[r].pc = "okjson"
  /\ IF ~runs[r].response.body.parses
       THEN /\ Catch(r, MsgSyntaxError)
            /\ UNCHANGED << stepClass, notesData >>
       ELSE IF ~Truthy(runs[r].response.body.json.success)
       THEN /\ Catch(r, BackendErrorMessage(runs[r].response.body.json))
            /\ UNCHANGED << stepClass, notesData >>
       ELSE /\ stepClass' = setStep("quiz")
            /\ notesData' = runs[r].response.body.json
            /\ runs' = [runs EXCEPT ![r] =
                          [@ EXCEPT !.pc = "timer1",
                                    !.response = NoResponse,
                                    !.data = runs[r].response.body.json]]
            /\ UNCHANGED << generateDisabled, loading, overlayHidden,
                            toast >>
  /\ UNCHANGED << displayed, results >>
  /\ recUnchanged

\* the first 600 ms timeout fires: app.js:223-225
FlashTimer(r) ==
  /\ runs[r].pc = "timer1"
  /\ stepClass' = setStep("flash")
  /\ runs' = [runs EXCEPT ![r] = [@ EXCEPT !.pc = "timer2"]]
  /\ UNCHANGED << generateDisabled, loading, overlayHidden, displayed,
                  results, notesData, toast >>
  /\ recUnchanged

\* the second 600 ms timeout fires: app.js:225-229
FinishTimer(r) ==
  /\ runs[r].pc = "timer2"
  /\ hideProcessingOverlay
  /\ setLoading(FALSE)
  /\ displayed' = {runs[r].data}
  /\ results' = displayResults(runs[r].data)
  /\ runs' = [runs EXCEPT ![r] =
                [IdleRun EXCEPT !.pc = "done", !.branch = runs[r].branch,
                                !.reqs = runs[r].reqs]]
  /\ UNCHANGED << stepClass, notesData, toast >>
  /\ recUnchanged

----------------------------------------------------------------------------------------------------------------------------------------
(* The generation pipeline, Spec: the generate handlers under every
   interleaving with the tabs, the upload controls (a supported file) and
   recording sessions that the user starts one at a time, a start being
   clicked only when no earlier start or stop is still pending.  The
   validation of unsupported files and the toast are in UploadSpec, the
   recorder under every order of its events in RecordSpec. *)

\* the supported file the user selects in Spec
SupportedFile == File("", <<"b",".","W","a","V">>)

SessionIdle ==
  /\ pendingStarts = 0
  /\ \A rec \in 1..Len(recorders) :
        recorders[rec].state = "inactive" /\ ~recorders[rec].stopQueued

GenerateStep ==
  \/ GenerateClick
  \/ \E r \in 1..MaxRuns : EncodeDone(r)
  \/ \E r \in 1..MaxRuns : EncodeFails(r)
  \/ \E r \in 1..MaxRuns : FetchRejects(r)
  \/ \E r \in 1..MaxRuns, status \in Statuses, body \in Bodies :
        FetchResolves(r, status, body)
  \/ \E r \in 1..MaxRuns : ErrorBodyRead(r)
  \/ \E r \in 1..MaxRuns : BodyRead(r)
  \/ \E r \in 1..MaxRuns : FlashTimer(r)
  \/ \E r \in 1..MaxRuns : FinishTimer(r)

Next ==
  \/ \E tab \in {"upload", "record"} : TabClick(tab)
  \/ handleFileSelect(SupportedFile)
  \/ RemoveFileClick
  \/ SessionIdle /\ Len(streams) < MaxSessions /\ StartRecordingClick
  \/ StartRecordingResumed
  \/ StopRecordingClick
  \/ \E rec \in 1..MaxStarts : OnStop(rec)
  \/ GenerateStep

Spec == Init /\ [][Next]_vars

\* what a suspended generate handler does when its await settles or its
\* timer fires
RunStep(r) ==
  \/ EncodeDone(r)
  \/ EncodeFails(r)
  \/ FetchRejects(r)
  \/ \E status \in Statuses, body \in Bodies : FetchResolves(r, status, body)
  \/ ErrorBodyRead(r)
  \/ BodyRead(r)
  \/ FlashTimer(r)
  \/ FinishTimer(r)

\* Spec with every FileReader read, network call, body read and timeout
\* completing in the end
LiveSpec == Init /\ [][Next]_vars /\ \A r \in 1..MaxRuns : WF_vars(RunStep(r))

----------------------------------------------------------------------------
(* The upload controls alone, over every combination of a declared type and
   a file name *)

Types == allowed \cup {"", "text/plain", "audio/flac"}

Names ==
  { <<"a",".","m","p","3">>, <<"b",".","W","a","V">>,
    <<"a",".","w","e","b","m">>, <<"a",".","O","g","g">>,
    <<"a",".","m","4","a">>, <<"a",".","M","P","4">>,
    <<"a","m","p","3">>, <<"a",".","m","p","3",".","t","x","t">>,
    <<"a",".","m","p","3","x">>, <<"c",".","t","x","t">>, << >> }

AllFiles == { File(t, n) : t \in Types, n \in Names }

UploadNext ==
  \/ \E tab \in {"upload", "record"} : TabClick(tab)
  \/ \E file \in AllFiles : handleFileSelect(file)
  \/ RemoveFileClick
  \/ ToastClose
  \/ ToastTimeout

UploadSpec == Init /\ [][UploadNext]_vars

----------------------------------------------------------------------------
(* The recorder with the tabs and upload controls and no generate click:
   every order of start clicks, permission answers, chunk and tick events,
   stop clicks and stop events *)

RecordNext ==
  \/ \E tab \in {"upload", "record"} : TabClick(tab)
  \/ \E file \in SampleFiles : handleFileSelect(file)
  \/ RemoveFileClick
  \/ StartRecordingClick
  \/ GetUserMediaRejected
  \/ StartRecordingResumed
  \/ StartRecordingThrows
  \/ \E rec \in 1..MaxStarts, size \in {0, 1} : DataAvailable(rec, size)
  \/ \E id \in 1..MaxStarts : TimerTick(id)
  \/ StopRecordingClick
  \/ \E rec \in 1..MaxStarts : OnStop(rec)

RecordSpec == Init /\ [][RecordNext]_vars

----------------------------------------------------------------------------
(* PDF download, app.js:313-341.  The listener is attached when the script
   loads; a click is delivered whenever the button is not disabled.  Each
   click starts a handler, which takes the next position of `exports`:
   "fetch" and "blob" are its two awaits, "done" and "failed" its ends. *)

MsgPdfFailed == "Failed to generate PDF: PDF generation failed"
MsgPdfNetwork == "Failed to generate PDF: Failed to fetch"
MsgPdfBody == "Failed to generate PDF: The operation was aborted"

ExportInFlight(e) == exports[e] \in {"fetch", "blob"}

FreeExport == CHOOSE e \in 1..MaxExports :
                /\ exports[e] = "idle"
                /\ \A q \in 1..MaxExports : exports[q] = "idle" => e <= q

exportUnchanged ==
  /\ UNCHANGED << activeMode, uploadedFile, recordedBlob, generateDisabled >>
  /\ UNCHANGED recVars
  /\ UNCHANGED runVars

\* the finally block restoring the label only
ExportFinally_LabelOnly ==
  /\ downloadLabel' = "idle"
  /\ UNCHANGED downloadDisabled

\* the finally block, app.js:337-340
ExportFinally ==
  /\ downloadLabel' = "idle"
  /\ downloadDisabled' = FALSE

\* the catch and finally blocks, app.js:335-340
ExportCatch(e, message) ==
  /\ showError(message)
  /\ ExportFinally
  /\ exports' = [exports EXCEPT ![e] = "failed"]

\* click on downloadBtn: the handler up to its first await, app.js:313-322
ExportClick ==
  /\ ~downloadDisabled
  /\ \E e \in 1..MaxExports : exports[e] = "idle"
  /\ downloadLabel' = "busy"
  /\ downloadDisabled' = TRUE
  /\ pdfRequests' = Append(pdfRequests, notesData)
  /\ exports' = [exports EXCEPT ![FreeExport] = "fetch"]
  /\ UNCHANGED toast
  /\ exportUnchanged

\* fetch rejects into the catch block
ExportFetchRejects(e) ==
  /\ exports[e] = "fetch"
  /\ ExportCatch(e, MsgPdfNetwork)
  /\ UNCHANGED pdfRequests
  /\ exportUnchanged

\* fetch resolves: app.js:324-327 up to the next await
ExportFetchResolves(e, status) ==
  /\ exports[e] = "fetch"
  /\ IF ~Ok(status)
       THEN ExportCatch(e, MsgPdfFailed)
       ELSE /\ exports' = [exports EXCEPT ![e] = "blob"]
            /\ UNCHANGED << toast, downloadLabel, downloadDisabled >>
  /\ UNCHANGED pdfRequests
  /\ exportUnchanged

\* response.blob() resolves: the download is triggered, app.js:327-333, and
\* the finally block runs
ExportBlobRead(e) ==
  /\ exports[e] = "blob"
  /\ ExportFinally
  /\ exports' = [exports EXCEPT ![e] = "done"]
  /\ UNCHANGED << toast, pdfRequests >>
  /\ exportUnchanged

\* response.blob() rejects (the connection drops while the body is read)
ExportBlobFails(e) ==
  /\ exports[e] = "blob"
  /\ ExportCatch(e, MsgPdfBody)
  /\ UNCHANGED pdfRequests
  /\ exportUnchanged

ExportStep ==
  \/ ExportClick
  \/ \E e \in 1..MaxExports : ExportFetchRejects(e)
  \/ \E e \in 1..MaxExports, status \in Statuses : ExportFetchResolves(e, status)
  \/ \E e \in 1..MaxExports : ExportBlobRead(e)
  \/ \E e \in 1..MaxExports : ExportBlobFails(e)

\* the generation pipeline of Spec together with the download button
SessionNext ==
  \/ Next
  \/ ExportStep

SessionSpec == Init /\ [][SessionNext]_vars

----------------------------------------------------------------------------
(* The results section, app.js:241-310: displayResults applied to the
   payloads a successful run can deliver, and the clicks on the quiz and
   flashcard elements it creates *)

viewUnchanged ==
  /\ UNCHANGED << activeMode, uploadedFile, recordedBlob, generateDisabled,
                  toast, loading, overlayHidden, stepClass, notesData, runs >>
  /\ UNCHANGED recVars
  /\ UNCHANGED expVars

\* the call displayResults(data) of app.js:228
DisplayResults(data) ==
  /\ displayed' = {data}
  /\ results' = displayResults(data)
  /\ viewUnchanged

\* toggleAnswer, app.js:305-310, for the button of quiz item i
toggleAnswer(i) ==
  /\ i \in 1..Len(results.quiz)
  /\ LET isVisible == results.quiz[i].display = "block" IN
     results' = [results EXCEPT
                   !.quiz[i].display = IF isVisible THEN "none" ELSE "block",
                   !.quiz[i].label = IF isVisible THEN RevealLabel
                                                  ELSE HideLabel]
  /\ UNCHANGED displayed
  /\ viewUnchanged

\* click on flashcard j: classList.toggle('flipped'), app.js:289
FlashcardClick(j) ==
  /\ j \in 1..Len(results.flashcards)
  /\ results' = [results EXCEPT !.flashcards[j].flipped = ~@]
  /\ UNCHANGED displayed
  /\ viewUnchanged

Chars == {"&", "<", ">", "\"", "'", "a"}

RECURSIVE TextsOfLen(_)
TextsOfLen(n) ==
  IF n = 0 THEN { <<>> }
  ELSE { Append(t, c) : t \in TextsOfLen(n - 1), c \in Chars }

Texts == UNION { TextsOfLen(n) : n \in 0..MaxText }

Success(notes) == Payload("true", Undefined, notes)

\* payloads that carry the same text in every field
TextInputs ==
  { Success(Result(ResultFields, t, t, <<t>>,
                   << QuizItem({"question", "answer"}, t, t) >>,
                   << Card({"front", "back"}, t, t) >>)) : t \in Texts }

\* payloads with every combination of result fields present and absent, and
\* payloads with every combination of item fields present and absent
PartialInputs ==
  { Success(Result(has, <<"a">>, <<"a">>, << <<"a">> >>,
                   << QuizItem({"question", "answer"}, <<"a">>, <<"a">>) >>,
                   << Card({"front", "back"}, <<"a">>, <<"a">>) >>)) :
      has \in SUBSET ResultFields }
  \cup
  { Success(Result(ResultFields, <<"a">>, <<"a">>, << <<"a">> >>,
                   << QuizItem(ih, <<"a">>, <<"a">>) >>,
                   << Card(ch, <<"a">>, <<"a">>) >>)) :
      ih \in SUBSET {"question", "answer"},
      ch \in SUBSET {"front", "back"} }

\* payloads with n quiz items and m flashcards
CountInputs ==
  { Success(Result(ResultFields, <<"a">>, <<"a">>, <<>>,
           [i \in 1..n |-> QuizItem({"question", "answer"}, <<"a">>, <<"a">>)],
           [j \in 1..m |-> Card({"front", "back"}, <<"a">>, <<"a">>)])) :
      n \in 0..MaxItems, m \in 0..MaxItems }

RenderInputs == TextInputs \cup PartialInputs \cup CountInputs

RenderNext ==
  \/ \E data \in RenderInputs : DisplayResults(data)
  \/ \E i \in 1..MaxItems : toggleAnswer(i)
  \/ \E j \in 1..MaxItems : FlashcardClick(j)

RenderSpec == Init /\ [][RenderNext]_vars

----------------------------------------------------------------------------
(* The recorder of RecordSpec with stopRecording also called while the stop
   button is hidden *)

StopRecordingCall == stopRecording

StopNext ==
  \/ RecordNext
  \/ StopRecordingCall

StopSpec == Init /\ [][StopNext]_vars

----------------------------------------------------------------------------
(* Properties *)

Runs == 1..MaxRuns

Ready ==
  \/ activeMode = "upload" /\ uploadedFile /= {}
  \/ activeMode = "record" /\ recordedBlob /= {}

\* the handler of r ends in failure in this step
Fails(r) == runs[r].pc /= "failed" /\ runs'[r].pc = "failed"

\* the index of the step marked 'active', 0 when none is
ActiveStage ==
  IF \E i \in 1..Len(steps) : stepClass[steps[i]] = "active"
  THEN CHOOSE i \in 1..Len(steps) : stepClass[steps[i]] = "active"
  ELSE 0

\* C1: from the generate click until the run completes or fails the generate
\* button stays disabled, so at most one run is in flight at any time.
C1_OneRunInFlight ==
  /\ \A r \in Runs : InFlight(r) => generateDisabled
  /\ Cardinality({r \in Runs : InFlight(r)}) <= 1

\* C2: after any sequence of tab switch, file select, file remove, record
\* start and record stop, the generate button is enabled if and only if the
\* selection of the active mode is present.
C2_EnabledIffReady == ~generateDisabled <=> Ready

\* C3: while a recorder started by startRecording has not been stopped,
\* recordedBlob is null.
C3_BlobNullWhileRecording ==
  (\E rec \in 1..Len(recorders) : recorders[rec].state = "recording")
    => recordedBlob = {}

\* C4: every generate click takes the upload arm or the record arm and
\* sends one request to /transcribe, a multipart body with field 'audio' in
\* the upload arm and a JSON body with field 'audio_blob' in the record arm
\* (once the blob is encoded); no click sends none or two.
C4_ExactlyOneRequest ==
  \A r \in Runs :
    runs[r].pc /= "idle" =>
      /\ runs[r].branch \in {"upload", "record"}
      /\ runs[r].branch = "upload" => runs[r].reqs = <<MultipartRequest>>
      /\ (runs[r].branch = "record" /\ runs[r].pc \notin {"encode", "failed"})
           => runs[r].reqs = <<JsonRequest>>
      /\ Len(runs[r].reqs) <= 1

\* the upper-case form of the letters of the allowed extensions
Upper(c) ==
  CASE c = "m" -> "M" [] c = "p" -> "P" [] c = "w" -> "W" [] c = "a" -> "A"
    [] c = "v" -> "V" [] c = "e" -> "E" [] c = "b" -> "B" [] c = "o" -> "O"
    [] c = "g" -> "G"
    [] OTHER -> c

\* name ends in a dot and the letters of ext, each in either case
EndsInAnyCase(name, ext) ==
  /\ Len(name) >= Len(ext) + 1
  /\ name[Len(name) - Len(ext)] = "."
  /\ \A i \in 1..Len(ext) :
        name[Len(name) - Len(ext) + i] \in {ext[i], Upper(ext[i])}

\* the files C5 says are accepted
Supported(file) ==
  \/ file.type \in {"audio/mpeg", "audio/wav", "audio/webm", "audio/ogg",
                     "audio/mp4", "video/mp4", "audio/x-m4a"}
  \/ \E ext \in { <<"m","p","3">>, <<"w","a","v">>, <<"w","e","b","m">>,
                    <<"o","g","g">>, <<"m","4","a">>, <<"m","p","4">> } :
        EndsInAnyCase(file.name, ext)

\* C5: handleFileSelect sets uploadedFile to the file exactly when its type
\* is one of the seven allowed types or its name ends in one of the six
\* extensions in any letter case; for every other file it shows the error
\* notice and leaves uploadedFile and the generate button as they were.
C5_AcceptsSupported ==
  [][\A file \in AllFiles :
       handleFileSelect(file) =>
         IF Supported(file)
         THEN uploadedFile' = {file}
         ELSE /\ toast' = MsgUnsupported
              /\ uploadedFile' = uploadedFile
              /\ generateDisabled' = generateDisabled]_vars

\* a file with no declared type and an upper-case extension is selected and
\* a later unsupported file left it in place and raised the notice
C5_Witness ==
  /\ uploadedFile = {File("", <<"b",".","W","a","V">>)}
  /\ ~generateDisabled
  /\ toast = MsgUnsupported

\* C6: a run that fails on a non-2xx response shows the body's error field
\* when the body parses as JSON with an error field, and 'HTTP <status>'
\* when the body cannot be parsed.
C6_NonOkMessage ==
  [][\A r \in Runs :
       (runs[r].pc = "errjson" /\ Fails(r)) =>
         LET resp == runs[r].response IN
         /\ (resp.body.parses /\ resp.body.json.error \notin {Undefined, ""})
              => toast' = resp.body.json.error
         /\ ~resp.body.parses => toast' = HttpMessage(resp.status)]_vars

\* C7: when a 2xx response carries a payload whose success flag is false or
\* absent, the run fails, the notice is the payload's error field (the
\* generic message when it has none or an empty one), the step elements
\* are left as they were (no advance to quiz) and the stored and displayed
\* results are not updated.
C7_BackendFailure ==
  [][\A r \in Runs :
       LET json == runs[r].response.body.json IN
       ( /\ runs[r].pc = "okjson"
         /\ runs'[r].pc /= "okjson"
         /\ runs[r].response.body.parses
         /\ json.success \in {"false", Undefined} ) =>
           /\ runs'[r].pc = "failed"
           /\ toast' = IF json.error \in {Undefined, ""}
                        THEN "Unknown error" ELSE json.error
           /\ stepClass' = stepClass
           /\ displayed' = displayed
           /\ notesData' = notesData]_vars

\* a run failed on a payload with success false and the error of the server
\* is the notice, with the summarize step still the one marked active
C7_Witness ==
  \E r \in Runs :
    /\ runs[r].pc = "failed"
    /\ toast = "model cold start"
    /\ stepClass["summarize"] = "active"
    /\ displayed = {}

\* C8: while a generate run is outstanding the step marked active only
\* moves forward in the order transcribe, summarize, quiz, flash.
C8_StageOnlyForward ==
  [][(\E r \in Runs : InFlight(r) /\ InFlight(r)')
       => ActiveStage' >= ActiveStage]_vars

\* C9: after any failed generate run the overlay is hidden and no step
\* element is left marked 'active'.
C9_NoStageActiveAfterFailure ==
  [][\A r \in Runs :
       Fails(r) => /\ overlayHidden'
                   /\ \A i \in 1..Len(steps) : stepClass'[steps[i]] /= "active"]_vars

\* C9, as the code has it: a failing run hides the overlay and does not
\* touch the step elements, so the step that was active stays marked (a run
\* that fails in its click handler has just cleared them all).
C9_OverlayHiddenStepsKept ==
  [][\A r \in Runs :
       Fails(r) => /\ overlayHidden'
                   /\ stepClass' = IF InFlight(r) THEN stepClass ELSE NoSteps]_vars

\* a run failed after its request was sent: the overlay is hidden and the
\* transcribe step is still marked active
C9_Witness ==
  \E r \in Runs :
    /\ runs[r].pc = "failed"
    /\ Len(runs[r].reqs) = 1
    /\ overlayHidden
    /\ stepClass["transcribe"] = "active"

\* the busy state is reverted: loader and overlay hidden, button enabled
NotBusy == ~loading /\ overlayHidden /\ ~generateDisabled

\* C10: every generate run that has set the loading state ends, and at its
\* end the loading state is reverted (button enabled, loader and overlay
\* hidden), provided the network call and the timers complete.
C10_NeverSticks ==
  \A r \in Runs : InFlight(r) ~> (~InFlight(r) /\ NotBusy)

\* one run has completed and another has failed, and the busy state is
\* reverted
C10_Witness ==
  /\ \E r \in Runs : runs[r].pc = "done"
  /\ \E r \in Runs : runs[r].pc = "failed" /\ Len(runs[r].reqs) = 1
  /\ NotBusy

\* an export handler starts in this step
ExportStarts(e) == exports[e] = "idle" /\ exports'[e] /= "idle"

\* C11: while no generate run has succeeded (notesData is still the empty
\* object), a click on the download button fails at once: it sends no
\* request to /generate-pdf and leaves the button's label and enabled state
\* as they were.
C11_NoExportWithoutResult ==
  [][\A e \in 1..MaxExports :
       (notesData = EmptyObject /\ ExportStarts(e)) =>
          /\ exports'[e] = "failed"
          /\ pdfRequests' = pdfRequests
          /\ downloadLabel' = downloadLabel
          /\ downloadDisabled' = downloadDisabled]_vars

\* C12: while an export request is outstanding the download button is
\* disabled and shows the busy label; whenever none is outstanding, so after
\* every attempt however it ended, the button shows the idle label and is
\* enabled.
C12_ButtonFollowsExport ==
  IF \E e \in 1..MaxExports : ExportInFlight(e)
  THEN downloadDisabled /\ downloadLabel = "busy"
  ELSE ~downloadDisabled /\ downloadLabel = "idle"

\* an export of a stored payload got a non-2xx response and has ended with
\* the button back to idle
C12_Witness ==
  /\ \E e \in 1..MaxExports : exports[e] = "failed"
  /\ toast = MsgPdfFailed
  /\ Len(pdfRequests) > 0
  /\ pdfRequests[Len(pdfRequests)] /= EmptyObject
  /\ ~downloadDisabled
  /\ downloadLabel = "idle"

\* C20: notesData changes only in the step of a generate run that has read
\* the body of a 2xx response whose success flag is true, and then it is that
\* payload as a whole; no failed run, export step, input or recording action
\* changes it.
C20_NotesDataOnlyOnSuccess ==
  [][notesData' /= notesData =>
       \E r \in Runs :
         /\ runs[r].pc = "okjson"
         /\ Ok(runs[r].response.status)
         /\ runs[r].response.body.parses
         /\ runs[r].response.body.json.success = "true"
         /\ runs'[r].pc = "timer1"
         /\ notesData' = runs[r].response.body.json]_vars

\* a payload is stored, and a generate run has failed after its request and
\* an export has ended since
C20_Witness ==
  /\ notesData /= EmptyObject
  /\ \E r \in Runs : runs[r].pc = "failed" /\ Len(runs[r].reqs) = 1
  /\ \E e \in 1..MaxExports : exports[e] \in {"done", "failed"}

\* the recorders that are recording
Recording == { rec \in 1..Len(recorders) : recorders[rec].state = "recording" }

\* C13: every microphone stream that is still live belongs to the recording
\* in progress (the recorder the stop button stops) or to a recorder whose
\* stop event is about to release it; a stream of an attempt that has ended
\* by a stop, by a failure after acquisition or by being replaced is released.
C13_StreamsReleased ==
  \A s \in 1..Len(streams) :
    streams[s] =>
      \E rec \in 1..Len(recorders) :
        /\ recorders[rec].stream = s
        /\ \/ rec = mediaRecorder /\ recorders[rec].state = "recording"
           \/ recorders[rec].stopQueued

\* C14: at most one startRecording is in progress or active at a time:
\* the starts waiting for the permission prompt and the recorders recording
\* are together at most one.
C14_OneStartAtATime == pendingStarts + Cardinality(Recording) <= 1

\* no recorder is active: none was created, or the current one was stopped
NoActiveRecorder ==
  mediaRecorder = 0 \/ recorders[mediaRecorder].state = "inactive"

\* C15: stopRecording called while no recorder is active (before any start,
\* or again after a stop) changes nothing of the recording session: the
\* recorder, chunks, timer, seconds, blob, streams and buttons stay as they
\* are, and before any start these are the initial values.
C15_StopIsNoOp ==
  [][(stopRecording /\ NoActiveRecorder) =>
       /\ UNCHANGED << mediaRecorder, audioChunks, recordingTimer,
                       recordingSeconds, recordedBlob, recorders, streams,
                       intervals, pendingStarts, recordBtnHidden,
                       stopBtnHidden, generateDisabled >>
       /\ mediaRecorder = 0 =>
            /\ mediaRecorder' = 0
            /\ audioChunks' = <<>>
            /\ recordingSeconds' = 0
            /\ recordedBlob' = {}]_vars

\* stopRecording has run before any recorder was created
C15_Witness ==
  /\ recStatus = "saved"
  /\ mediaRecorder = 0
  /\ audioChunks = <<>>
  /\ recordingSeconds = 0
  /\ recordedBlob = {}

\* C19: after stopRecording and until the next successful start (the record
\* button is shown), no interval timer of an earlier startRecording is still
\* running, so recordingSeconds does not advance.
C19_NoTimerAfterStop == ~recordBtnHidden => intervals = {}

Entities == {Amp, Lt, Gt, Quot, Apos}

\* the entity of `entity` stands in html at position i
EntityAt(html, i, entity) ==
  /\ i + Len(entity) - 1 <= Len(html)
  /\ \A k \in 1..Len(entity) : html[i + k - 1] = entity[k]

\* no raw markup character, and every '&' starts one of the five entities
Safe(html) ==
  \A i \in 1..Len(html) :
    /\ html[i] \notin {"<", ">", "\"", "'"}
    /\ html[i] = "&" => \E entity \in Entities : EntityAt(html, i, entity)

\* the text an HTML parser reads from html: each entity is its character
RECURSIVE Decode(_)
Decode(html) ==
  IF html = <<>> THEN <<>>
  ELSE IF EntityAt(html, 1, Amp) THEN <<"&">> \o Decode(SubSeq(html, 6, Len(html)))
  ELSE IF EntityAt(html, 1, Lt) THEN <<"<">> \o Decode(SubSeq(html, 5, Len(html)))
  ELSE IF EntityAt(html, 1, Gt) THEN <<">">> \o Decode(SubSeq(html, 5, Len(html)))
  ELSE IF EntityAt(html, 1, Quot) THEN <<"\"">> \o Decode(SubSeq(html, 7, Len(html)))
  ELSE IF EntityAt(html, 1, Apos) THEN <<"'">> \o Decode(SubSeq(html, 7, Len(html)))
  ELSE <<Head(html)>> \o Decode(Tail(html))

Escaped(html, text) == Safe(html) /\ Decode(html) = text

\* C16: whatever the texts of the payload displayed, the quiz questions and
\* answers and the flashcard faces in the results section are escapeHtml
\* output, which has no raw '<', '>', '"' or "'", in which every '&' starts
\* one of the five entities and which reads back as the text; the
\* transcript, the summary and the bullets are the payload's texts verbatim.
C16_EscapedOrVerbatim ==
  \A data \in displayed :
    /\ \A i \in 1..Len(data.quiz) :
         /\ Escaped(results.quiz[i].question, data.quiz[i].question)
         /\ Escaped(results.quiz[i].answer, data.quiz[i].answer)
    /\ \A j \in 1..Len(data.flashcards) :
         /\ Escaped(results.flashcards[j].front, data.flashcards[j].front)
         /\ Escaped(results.flashcards[j].back, data.flashcards[j].back)
    /\ data.transcript /= <<>> => results.transcript = data.transcript
    /\ data.summary /= <<>> => results.summary = data.summary
    /\ results.bullets = data.bullets

\* a payload whose texts are "<'" is displayed
C16_Witness ==
  /\ ~results.hidden
  /\ results.transcript = <<"<", "'">>
  /\ Len(results.quiz) = 1
  /\ results.quiz[1].question = Lt \o Apos
  /\ Len(results.flashcards) = 1
  /\ results.flashcards[1].back = Lt \o Apos

\* C17 as stated: for every payload displayed with an optional field
\* missing, the results section shows explicit placeholder content for that
\* field, never empty content.
C17_PlaceholderForEveryField ==
  \A data \in displayed :
    /\ ~results.hidden
    /\ "transcript" \notin data.has => results.transcript /= <<>>
    /\ "summary" \notin data.has => results.summary /= <<>>
    /\ "bullets" \notin data.has => results.bullets /= <<>>
    /\ "quiz" \notin data.has => results.quiz /= <<>>
    /\ "flashcards" \notin data.has => results.flashcards /= <<>>
    /\ \A i \in 1..Len(data.quiz) :
         /\ "question" \notin data.quiz[i].has =>
               results.quiz[i].question /= <<>>
         /\ "answer" \notin data.quiz[i].has => results.quiz[i].answer /= <<>>
    /\ \A j \in 1..Len(data.flashcards) :
         /\ "front" \notin data.flashcards[j].has =>
               results.flashcards[j].front /= <<>>
         /\ "back" \notin data.flashcards[j].has =>
               results.flashcards[j].back /= <<>>

\* C17 as amended: displayResults completes for every payload with optional
\* fields missing; a missing transcript or summary is shown as its
\* placeholder text, a missing bullets, quiz or flashcards list as an empty
\* list, and a missing question, answer, front or back as empty content.
C17_PlaceholderOrEmpty ==
  \A data \in displayed :
    /\ ~results.hidden
    /\ "transcript" \notin data.has =>
          results.transcript = TranscriptPlaceholder
    /\ "summary" \notin data.has => results.summary = SummaryPlaceholder
    /\ "bullets" \notin data.has => results.bullets = <<>>
    /\ "quiz" \notin data.has => results.quiz = <<>>
    /\ "flashcards" \notin data.has => results.flashcards = <<>>
    /\ \A i \in 1..Len(data.quiz) :
         /\ "question" \notin data.quiz[i].has =>
               results.quiz[i].question = <<>>
         /\ "answer" \notin data.quiz[i].has => results.quiz[i].answer = <<>>
    /\ \A j \in 1..Len(data.flashcards) :
         /\ "front" \notin data.flashcards[j].has =>
               results.flashcards[j].front = <<>>
         /\ "back" \notin data.flashcards[j].has =>
               results.flashcards[j].back = <<>>

\* a payload without transcript, bullets and flashcards is displayed
C17_Witness ==
  /\ ~results.hidden
  /\ \E data \in displayed : data.has = {"summary", "quiz"}
  /\ results.transcript = TranscriptPlaceholder
  /\ results.summary = <<"a">>
  /\ results.bullets = <<>>
  /\ Len(results.quiz) = 1
  /\ results.flashcards = <<>>

\* the answer of a quiz block is shown: the test of toggleAnswer, app.js:307
Visible(item) == item.display = "block"

\* C18: displayResults of a payload with n quiz items and m flashcards
\* leaves exactly n quiz blocks with hidden answers and m flashcards front
\* face up; a toggle of one answer or a flip of one card inverts that item's
\* flag (with the label following the answer's visibility, so that a second
\* toggle restores the hidden or front state) and changes no other item.
C18_ItemsIndependent ==
  [][/\ \A data \in displayed' :
          DisplayResults(data) =>
            /\ Len(results'.quiz) = Len(data.quiz)
            /\ \A i \in 1..Len(data.quiz) :
                  /\ ~Visible(results'.quiz[i])
                  /\ results'.quiz[i].label = RevealLabel
            /\ Len(results'.flashcards) = Len(data.flashcards)
            /\ \A j \in 1..Len(data.flashcards) :
                  ~results'.flashcards[j].flipped
     /\ \A i \in 1..MaxItems :
          toggleAnswer(i) =>
            /\ Visible(results'.quiz[i]) = ~Visible(results.quiz[i])
            /\ results'.quiz[i].label =
                 IF Visible(results'.quiz[i]) THEN HideLabel ELSE RevealLabel
            /\ results'.quiz[i].question = results.quiz[i].question
            /\ results'.quiz[i].answer = results.quiz[i].answer
            /\ Len(results'.quiz) = Len(results.quiz)
            /\ \A k \in 1..Len(results.quiz) :
                  k /= i => results'.quiz[k] = results.quiz[k]
            /\ results'.flashcards = results.flashcards
     /\ \A j \in 1..MaxItems :
          FlashcardClick(j) =>
            /\ results'.flashcards[j].flipped = ~results.flashcards[j].flipped
            /\ Len(results'.flashcards) = Len(results.flashcards)
            /\ \A k \in 1..Len(results.flashcards) :
                  k /= j => results'.flashcards[k] = results.flashcards[k]
            /\ results'.quiz = results.quiz]_vars

\* of two quiz items the first is revealed and the second was revealed and
\* hidden again; of two flashcards the first is flipped
C18_Witness ==
  /\ Len(results.quiz) = 2
  /\ Visible(results.quiz[1])
  /\ results.quiz[2].display = "none"
  /\ results.quiz[2].label = RevealLabel
  /\ Len(results.flashcards) = 2
  /\ results.flashcards[1].flipped
  /\ ~results.flashcards[2].flipped

\* C21: at every moment when the export button can be clicked (the results
\* section is shown and the button is not disabled), the stored notesData,
\* which is the body an export request sent now would carry, is the payload
\* rendered in the results section, also between the storing of a new
\* payload at the quiz stage and its display after the two timers.
C21_ExportsWhatIsShown ==
  (~results.hidden /\ ~downloadDisabled) => displayed = {notesData}

====
